---- MODULE Spec2Model ----
(***************************************************************************)
(* tonic-prometheus-layer: the lifecycle trackers MetricsFuture (server,   *)
(* src/src/lib.rs) and MetricsChannelFuture (client, src/src/client.rs),   *)
(* the lazily registered instruments and the write-once global settings    *)
(* (src/src/metrics.rs).                                                   *)
(*                                                                         *)
(* Strings that the code slices (request paths, grpc-status bytes) are     *)
(* sequences of one-character strings; Rust's 0-based byte offsets are     *)
(* kept and converted at the point of access.  Durations are ticks of a    *)
(* logical clock, bucket boundaries are milliseconds.                      *)
(***************************************************************************)
EXTENDS Integers, Sequences, FiniteSets, TLC

\* ---------------------------------------------------------------- bounds
MaxTrackers == 2
MaxPolls == 2
MaxClock == 1
MaxInits == 2
MaxPathLen == 5

\* Option<T>: None is the empty tuple, Some(x) the one-element tuple.
None == <<>>
Some(x) == <<x>>
IsSome(o) == o # <<>>
Unwrap(o) == o[1]

\* ------------------------------------------------- label extraction (pure)
\* str::find(c): 0-based offset of the first c in s, or None.
Find(s, c) ==
    IF \E k \in 1..Len(s) : s[k] = c
    THEN Some((CHOOSE k \in 1..Len(s) : s[k] = c /\ \A j \in 1..(k - 1) : s[j] # c) - 1)
    ELSE None

\* Rust's s[a..b] with 0-based byte offsets.
Slice(s, a, b) == SubSeq(s, a + 1, b)

\* str indexing s[a..b] panics unless a <= b <= s.len().
SliceInBounds(s, a, b) == a <= b /\ b <= Len(s)

ServiceMethodSeparatorLast(path) ==
    IF Len(path) > 0 /\ path[1] = "/" /\ (\E k \in 2..Len(path) : path[k] = "/")
    THEN Some((CHOOSE k \in 2..Len(path) :
                  path[k] = "/" /\ \A j \in (k + 1)..Len(path) : path[j] # "/") - 1)
    ELSE None

\* MetricsService::call: offset of the separator between service and method.
ServiceMethodSeparator(path) ==
    IF Len(path) > 0 /\ path[1] = "/"
    THEN LET p == Find(Slice(path, 1, Len(path)), "/")
         IN  IF IsSome(p) THEN Some(Unwrap(p) + 1) ELSE None
    ELSE None

\* The two slices MetricsFuture::poll takes of the path are within it.
RpcLabelsDefined(path, sep) ==
    IsSome(sep) =>
        /\ SliceInBounds(path, 1, Unwrap(sep))
        /\ SliceInBounds(path, Unwrap(sep) + 1, Len(path))

RpcLabelsStripped(path, sep) ==
    IF IsSome(sep)
    THEN <<Slice(path, 1, Unwrap(sep)), Slice(path, Unwrap(sep) + 1, Len(path))>>
    ELSE IF Len(path) > 0 /\ path[1] = "/" THEN <<<<>>, Slice(path, 1, Len(path))>>
    ELSE <<<<>>, path>>

\* MetricsFuture::poll: (rpc_service, rpc_method) from the stored separator.
RpcLabels(path, sep) ==
    IF IsSome(sep)
    THEN <<Slice(path, 1, Unwrap(sep)), Slice(path, Unwrap(sep) + 1, Len(path))>>
    ELSE <<<<>>, path>>

\* tonic::Code::from_bytes followed by format!("{:?}", code).
CodeFromBytes(b) ==
    IF Len(b) = 1 THEN
        CASE b[1] = "0" -> "Ok"
          [] b[1] = "1" -> "Cancelled"
          [] b[1] = "2" -> "Unknown"
          [] b[1] = "3" -> "InvalidArgument"
          [] b[1] = "4" -> "DeadlineExceeded"
          [] b[1] = "5" -> "NotFound"
          [] b[1] = "6" -> "AlreadyExists"
          [] b[1] = "7" -> "PermissionDenied"
          [] b[1] = "8" -> "ResourceExhausted"
          [] b[1] = "9" -> "FailedPrecondition"
          [] OTHER -> "Unknown"
    ELSE IF Len(b) = 2 /\ b[1] = "1" THEN
        CASE b[2] = "0" -> "Aborted"
          [] b[2] = "1" -> "OutOfRange"
          [] b[2] = "2" -> "Unimplemented"
          [] b[2] = "3" -> "Internal"
          [] b[2] = "4" -> "Unavailable"
          [] b[2] = "5" -> "DataLoss"
          [] b[2] = "6" -> "Unauthenticated"
          [] OTHER -> "Unknown"
    ELSE "Unknown"

\* An inner result: a failure, or a response with an optional grpc-status header.
\* status is Option<bytes>.
ErrResult == [ok |-> FALSE, status |-> None]
Response(status) == [ok |-> TRUE, status |-> status]

ClassifyMissingAsUnknown(v) ==
    IF ~v.ok THEN "Unknown"
    ELSE IF IsSome(v.status) THEN CodeFromBytes(Unwrap(v.status))
    ELSE "Unknown"

\* v.as_ref().map_or(Code::Unknown, |resp| headers.get("grpc-status")...unwrap_or(Code::Ok))
Classify(v) ==
    IF ~v.ok THEN "Unknown"
    ELSE IF IsSome(v.status) THEN CodeFromBytes(Unwrap(v.status))
    ELSE "Ok"

\* ------------------------------------------------------------ instruments
\* The Lazy statics of metrics.rs.
ServerInstruments ==
    {"COUNTER_MP", "COUNTER_SM", "COUNTER_SMC", "HISTOGRAM_MP", "HISTOGRAM_SMC", "GAUGE_MP"}

\* The statics client.rs imports from crate::metrics.
ClientInstruments ==
    {"CLIENT_COUNTER_STARTED", "CLIENT_COUNTER_HANDLED", "CLIENT_HISTOGRAM"}

Instruments == ServerInstruments \cup ClientInstruments

Histograms == {"HISTOGRAM_MP", "HISTOGRAM_SMC", "CLIENT_HISTOGRAM"}

\* The names and label schemas of the client instruments (the handled
\* counter's are the ones the test of client.rs reads back).
ClientMetricName(i) ==
    CASE i = "CLIENT_COUNTER_STARTED" -> "grpc_client_started_total"
      [] i = "CLIENT_COUNTER_HANDLED" -> "grpc_client_handled_total"
      [] i = "CLIENT_HISTOGRAM" -> "grpc_client_handling_seconds"

ClientLabelSchema(i) ==
    IF i = "CLIENT_COUNTER_STARTED" THEN <<"grpc_service", "grpc_method">>
    ELSE <<"grpc_service", "grpc_method", "grpc_code">>

\* The *_NAME constants: the name each instrument registers under.
MetricName(i) ==
    CASE i = "COUNTER_MP" -> "function_calls_total"
      [] i = "HISTOGRAM_MP" -> "function_calls_duration_seconds"
      [] i = "GAUGE_MP" -> "function_calls_concurrent"
      [] i = "COUNTER_SM" -> "grpc_server_started_total"
      [] i = "COUNTER_SMC" -> "grpc_server_handled_total"
      [] i = "HISTOGRAM_SMC" -> "grpc_server_handling_seconds"
      [] OTHER -> ClientMetricName(i)

\* The label schema each instrument is registered with.
LabelSchema(i) ==
    CASE i \in {"COUNTER_MP", "HISTOGRAM_MP", "GAUGE_MP"} -> <<"method", "path">>
      [] i = "COUNTER_SM" -> <<"grpc_service", "grpc_method">>
      [] i \in {"COUNTER_SMC", "HISTOGRAM_SMC"} -> <<"grpc_service", "grpc_method", "grpc_code">>
      [] OTHER -> ClientLabelSchema(i)

\* --------------------------------------------------------- global settings
\* Bucket boundaries in milliseconds.
DEFAULT_HISTOGRAM_BUCKETS ==
    <<5, 10, 25, 50, 75, 100, 250, 500, 750, 1000, 2500, 5000, 7500, 10000>>

\* impl Default for GlobalSettings: default buckets and a fresh registry.
DefaultSettings ==
    [histogram_buckets |-> DEFAULT_HISTOGRAM_BUCKETS, registry |-> "registry_default"]

\* The settings a caller may hand to try_init_settings, each with a registry of
\* its own: the buckets of the crate documentation, an empty list, and a list
\* that is not increasing (histogram_buckets is a public Vec<f64>).
SettingsChoices ==
    { [histogram_buckets |-> <<10, 50, 100, 500, 1000, 2500, 5000, 10000>>,
       registry |-> "registry_a"],
      [histogram_buckets |-> <<>>, registry |-> "registry_b"],
      [histogram_buckets |-> <<1000, 100>>, registry |-> "registry_c"] }

\* Settings whose registry the caller has already registered a collector of
\* their own in, with the default buckets and with a list that is not
\* increasing.
SharedSettings ==
    [histogram_buckets |-> DEFAULT_HISTOGRAM_BUCKETS, registry |-> "registry_shared"]
SharedUnordered ==
    [histogram_buckets |-> <<1000, 100>>, registry |-> "registry_shared"]

\* What prometheus makes of the bucket list of a HistogramVec when it creates
\* a child: an empty list stands for the library's DEFAULT_BUCKETS, a list
\* that is not strictly increasing is refused.
PROMETHEUS_DEFAULT_BUCKETS == <<5, 10, 25, 50, 100, 250, 500, 1000, 2500, 5000, 10000>>
BucketsValid(b) == \A k \in 1..(Len(b) - 1) : b[k] < b[k + 1]
ChildBuckets(b) == IF b = <<>> THEN PROMETHEUS_DEFAULT_BUCKETS ELSE b

Registries ==
    {DefaultSettings.registry, SharedSettings.registry}
        \cup {s.registry : s \in SettingsChoices}

\* ------------------------------------------------------------------ state
VARIABLES
    cell,        \* GLOBAL_SETTINGS: Option<GlobalSettings>
    lazy,        \* per instrument: "Uninit", "Running", "Init" or "Poisoned"
    initRuns,    \* per instrument: how often its initializer closure was entered
    registries,  \* per registry: the collectors registered in it
    vals,        \* per instrument: label values -> value
    tr,          \* the trackers
    now,         \* the clock read by Instant::now()
    inits,       \* the try_init_settings calls so far: argument, cell found, result
    ret          \* what the last operation returned

vars == <<cell, lazy, initRuns, registries, vals, tr, now, inits, ret>>

\* The process-wide part of the state, threaded through one step; panic is set
\* when the step panics.
World == [cell |-> cell, lazy |-> lazy, initRuns |-> initRuns,
          registries |-> registries, vals |-> vals, panic |-> FALSE]

get_settings_fresh(w) == [w EXCEPT !.cell = Some(DefaultSettings)]

\* get_settings: GLOBAL_SETTINGS.get_or_init(Default::default)
get_settings(w) ==
    IF IsSome(w.cell) THEN w ELSE [w EXCEPT !.cell = Some(DefaultSettings)]

\* What a register_*_vec_with_registry! call adds to the registry: the vec with
\* its name, its label names and, for a histogram, the bucket list its opts
\* were given (as given: the list is looked at when a child is created).
Collector(i, settings) ==
    [name |-> MetricName(i), labels |-> LabelSchema(i),
     buckets |-> IF i \in Histograms THEN Some(settings.histogram_buckets) ELSE None]

\* A collector the caller registered under the name of instrument i, with a
\* label schema of their own.
ForeignCollector(i) == [name |-> MetricName(i), labels |-> <<"other">>, buckets |-> None]

CanRegisterAlways(reg, c) == TRUE

\* Registry::register: refused when the name is taken.
CanRegister(reg, c) == \A d \in reg : d.name # c.name

\* The one element of a singleton set (binds an intermediate world once).
The(S) == CHOOSE x \in S : TRUE

ForceEveryUse(w, i) ==
    IF w.lazy[i] = "Poisoned" THEN [w EXCEPT !.panic = TRUE]
    ELSE [w EXCEPT !.lazy[i] = "Running", !.initRuns[i] = @ + 1]

ForceSkipping(w, i) ==
    IF w.lazy[i] \in {"Init", "Poisoned"} THEN w
    ELSE [w EXCEPT !.lazy[i] = "Running", !.initRuns[i] = @ + 1]

\* Lazy::force on instrument i by a thread that finds no other thread inside
\* the initializer: nothing to do once initialized, a panic once poisoned, and
\* on first use the thread enters the initializer (from here on other threads
\* that reach the instrument block); GLOBAL_SETTINGS is not touched yet.
Force(w, i) ==
    IF w.lazy[i] = "Init" THEN w
    ELSE IF w.lazy[i] = "Poisoned" THEN [w EXCEPT !.panic = TRUE]
    ELSE [w EXCEPT !.lazy[i] = "Running", !.initRuns[i] = @ + 1]

\* The end of the initializer, past its get_settings():
\* register_*_vec_with_registry!(..) on the registry of the settings and
\* .expect(..) on its result; a refused
\* registration panics and leaves the Lazy poisoned for good.
Register(w, i) ==
    LET s == Unwrap(w.cell)
        c == Collector(i, s)
    IN  IF CanRegister(w.registries[s.registry], c)
        THEN [w EXCEPT !.registries[s.registry] = @ \cup {c}, !.lazy[i] = "Init"]
        ELSE [w EXCEPT !.lazy[i] = "Poisoned", !.panic = TRUE]

\* The value of series l of instrument i (0 when there is no such series).
Val(v, i, l) == IF l \in DOMAIN v[i] THEN v[i][l] ELSE 0

\* A histogram series is <<number of observations, their sum, its buckets>>.
HVal(v, i, l) == IF l \in DOMAIN v[i] THEN v[i][l] ELSE <<0, 0, <<>>>>

\* with_label_values(l) on the initialized vec i: the child of l, created at
\* zero when there is none yet; creating a histogram child panics (the unwrap
\* inside with_label_values) when the bucket list is not strictly increasing.
with_label_values(w, i, l) ==
    IF l \in DOMAIN w.vals[i] THEN w
    ELSE IF i \notin Histograms THEN [w EXCEPT !.vals[i] = @ @@ (l :> 0)]
    ELSE LET b == Unwrap(w.cell).histogram_buckets
         IN  IF BucketsValid(b)
             THEN [w EXCEPT !.vals[i] = @ @@ (l :> <<0, 0, ChildBuckets(b)>>)]
             ELSE [w EXCEPT !.panic = TRUE]

AddLossy(w, i, l, d) == [w EXCEPT !.vals[i][l] = d]

\* .inc() / .dec() on the child of l: add d to it.
Add(w, i, l, d) == [w EXCEPT !.vals[i][l] = @ + d]

\* .observe(x) on the child of l.
Observe(w, i, l, x) == [w EXCEPT !.vals[i][l] = <<@[1] + 1, @[2] + x, @[3]>>]

\* --------------------------------------------------------------- trackers
TrackerIds == 1..MaxTrackers

\* Request inputs on the server: req.method() and req.uri().path().
HttpMethods == {"POST"}
GrpcPath == <<"/", "S", "/", "M">>
PlainPath == <<"/", "o">>

\* Every path of up to MaxPathLen characters over a separator and two letters,
\* and three longer ones: "/pkg.Service/Method", "noslash", "/onlyservice".
PathChars == {"/", "a", "b"}
PkgServiceMethod ==
    <<"/", "p", "k", "g", ".", "S", "e", "r", "v", "i", "c", "e",
      "/", "M", "e", "t", "h", "o", "d">>
NoSlash == <<"n", "o", "s", "l", "a", "s", "h">>
OnlyService == <<"/", "o", "n", "l", "y", "s", "e", "r", "v", "i", "c", "e">>
Paths ==
    UNION {[1..n -> PathChars] : n \in 0..MaxPathLen}
        \cup {PkgServiceMethod, NoSlash, OnlyService}

\* The values a grpc-status header may carry: every string of up to two
\* characters over the digits and a letter, and a three-digit one.
StatusChars == {"0", "1", "2", "3", "4", "5", "6", "7", "8", "9", "x"}
StatusBytes ==
    UNION {[1..n -> StatusChars] : n \in 0..2} \cup {<<"1", "0", "0">>}

\* What the wrapped call may resolve to: a failure, a response without
\* grpc-status, a response with any of these header values.
Results == {ErrResult, Response(None)} \cup {Response(Some(b)) : b \in StatusBytes}

Pending == <<"Pending">>
Ready(v) == <<"Ready", v>>
Panic == <<"Panic">>
IsReady(r) == r[1] = "Ready"

\* A tracker: the fields of the future (method, path, sep / service, method,
\* started_at); where the thread polling it stands (pc: "idle" between polls,
\* "start" inside the start closure, "inner" while this.inner.poll(cx) runs,
\* "ready" inside the Ready branch; ix: the statement of that block it is in;
\* ph: how far it is in that statement, "use" before the Lazy is dereferenced,
\* "wait" blocked on a Lazy another thread is initializing, "init" inside the
\* Lazy's initializer before its get_settings(), "reg" inside the initializer
\* past get_settings(), "op" with the child of its labels in hand; got,
\* elapsed: the locals v and elapsed of the Ready branch); who built it (via); and a record of what its polls did: how
\* many were entered (calls), how many returned (polls), how many returned
\* Ready, how many unwound (panics), the code of the last Ready, and the
\* instrument calls it has completed: gauge increments (ginc), started
\* increments (nstart), the codes of its handled increments (hcodes) and its
\* observations into the per-code latency histogram (nobs).
NoTracker ==
    [st |-> "none", kind |-> "none", method |-> "", path |-> <<>>, sep |-> None,
     service |-> "", started_at |-> None, pc |-> "idle", ix |-> 0, ph |-> "use",
     got |-> None, elapsed |-> 0, via |-> "new",
     calls |-> 0, polls |-> 0, readies |-> 0, panics |-> 0, last_code |-> "",
     ginc |-> 0, nstart |-> 0, hcodes |-> <<>>, nobs |-> 0]

\* MetricsFuture::new
MetricsFuture(method, path, sep) ==
    [NoTracker EXCEPT !.st = "live", !.kind = "server",
                      !.method = method, !.path = path, !.sep = sep]

\* MetricsChannelFuture::new
MetricsChannelFuture(service, method) ==
    [NoTracker EXCEPT !.st = "live", !.kind = "client",
                      !.service = service, !.method = method]

\* The label values a tracker uses.
LabelsMP(me) == <<me.method, me.path>>
LabelsSM(me) ==
    IF me.kind = "server" THEN RpcLabels(me.path, me.sep) ELSE <<me.service, me.method>>
LabelsSMC(me, code) == Append(LabelsSM(me), code)

\* The instruments a tracker counts its start, its completion and its latency
\* per code in.
StartedCounter(me) ==
    IF me.kind = "server" THEN "COUNTER_SM" ELSE "CLIENT_COUNTER_STARTED"
HandledCounter(me) ==
    IF me.kind = "server" THEN "COUNTER_SMC" ELSE "CLIENT_COUNTER_HANDLED"
LatencyHistogram(me) ==
    IF me.kind = "server" THEN "HISTOGRAM_SMC" ELSE "CLIENT_HISTOGRAM"

\* The wrapped future F: at any poll it answers Pending or Ready(v), or unwinds.
InnerPoll(me) == {Pending, Panic} \cup {Ready(v) : v \in Results}

NeedsStartAlways(me) == TRUE

NeedsStartUntilResolved(me) == me.readies = 0

\* started_at.get_or_insert_with: the closure runs only while started_at is None.
NeedsStart(me) == ~IsSome(me.started_at)

\* One statement of the start closure or of the Ready branch: an instrument
\* call with_label_values(l).inc() / .dec() ("add", by d), an instrument call
\* with_label_values(l).observe(elapsed), or the closure's Instant::now().
Stmt(k, i, l, d) == [k |-> k, i |-> i, l |-> l, d |-> d]
ReadClock == Stmt("now", "", <<>>, 0)

ServerStartGaugeOnly(me) == <<Stmt("add", "GAUGE_MP", LabelsMP(me), 1), ReadClock>>

\* The closure of get_or_insert_with in MetricsFuture::poll, statement by
\* statement.
ServerStart(me) ==
    <<Stmt("add", "GAUGE_MP", LabelsMP(me), 1),
      Stmt("add", "COUNTER_SM", LabelsSM(me), 1),
      ReadClock>>

\* The closure of get_or_insert_with in MetricsChannelFuture::poll.
ClientStart(me) == <<Stmt("add", "CLIENT_COUNTER_STARTED", LabelsSM(me), 1), ReadClock>>

\* if let Poll::Ready(v) = this.inner.poll(cx)
Completes(r) == IsReady(r)

\* The instruments the start closure and the Ready branch of poll use.
StartInstruments(kind) ==
    IF kind = "server" THEN {"GAUGE_MP", "COUNTER_SM"} ELSE {"CLIENT_COUNTER_STARTED"}
CompleteInstruments(kind) ==
    IF kind = "server"
    THEN {"COUNTER_MP", "COUNTER_SMC", "HISTOGRAM_MP", "HISTOGRAM_SMC", "GAUGE_MP"}
    ELSE {"CLIENT_COUNTER_HANDLED", "CLIENT_HISTOGRAM"}

ElapsedFromEpoch(clock, started) == clock

\* Instant::now().duration_since(*started_at)
Elapsed(clock, started) == clock - started

ServerCompleteRelabelled(me, v) ==
    LET smc == <<<<>>, me.path, Classify(v)>>
    IN  <<Stmt("add", "COUNTER_MP", LabelsMP(me), 1),
          Stmt("add", "COUNTER_SMC", smc, 1),
          Stmt("observe", "HISTOGRAM_MP", LabelsMP(me), 0),
          Stmt("observe", "HISTOGRAM_SMC", smc, 0),
          Stmt("add", "GAUGE_MP", LabelsMP(me), -1)>>

\* The instrument statements of the Ready branch of MetricsFuture::poll, in
\* their order.
ServerComplete(me, v) ==
    LET smc == LabelsSMC(me, Classify(v))
    IN  <<Stmt("add", "COUNTER_MP", LabelsMP(me), 1),
          Stmt("add", "COUNTER_SMC", smc, 1),
          Stmt("observe", "HISTOGRAM_MP", LabelsMP(me), 0),
          Stmt("observe", "HISTOGRAM_SMC", smc, 0),
          Stmt("add", "GAUGE_MP", LabelsMP(me), -1)>>

\* The instrument statements of the Ready branch of MetricsChannelFuture::poll.
ClientComplete(me, v) ==
    LET smc == LabelsSMC(me, Classify(v))
    IN  <<Stmt("add", "CLIENT_COUNTER_HANDLED", smc, 1),
          Stmt("observe", "CLIENT_HISTOGRAM", smc, 0)>>

PollOutputRewrapped(r) == IF IsReady(r) THEN Ready(Response(None)) ELSE r

\* What poll hands back for the inner result r: Poll::Ready(v) or Poll::Pending.
PollOutput(r) == r

\* The statements of the block the thread polling me is in.
BlockOf(me) ==
    IF me.pc = "start"
    THEN (IF me.kind = "server" THEN ServerStart(me) ELSE ClientStart(me))
    ELSE (IF me.kind = "server" THEN ServerComplete(me, me.got[2])
          ELSE ClientComplete(me, me.got[2]))

\* The effect of .inc() / .dec() / .observe(elapsed) of statement op on the
\* child of its labels.
Exec(w, op, elapsed) ==
    IF op.k = "add" THEN Add(w, op.i, op.l, op.d)
    ELSE Observe(w, op.i, op.l, elapsed)

\* One step of the thread inside statement op, at phase ph of it. ph of the
\* result is where the thread stands afterwards: "wait" blocked in Lazy::force
\* while another thread runs the initializer, "init" inside the initializer
\* at its first statement, "reg" inside it with get_settings() called, "use"
\* back at the dereference with the instrument registered, "op" with a
\* newly created child in hand, "done" past the statement. A thread that finds
\* the Lazy initialized and the child of its labels in place goes through the
\* statement in one step: neither can change under it.
StmtStep(w, op, ph, elapsed) ==
    IF op.k = "now" THEN [w |-> w, ph |-> "done"]
    ELSE IF ph = "init" THEN [w |-> get_settings(w), ph |-> "reg"]
    ELSE IF ph = "reg" THEN [w |-> Register(w, op.i), ph |-> "use"]
    ELSE IF ph = "op" THEN [w |-> Exec(w, op, elapsed), ph |-> "done"]
    ELSE IF w.lazy[op.i] = "Running" THEN [w |-> w, ph |-> "wait"]
    ELSE The({ IF f.panic THEN [w |-> f, ph |-> "use"]
               ELSE IF f.lazy[op.i] = "Running" THEN [w |-> f, ph |-> "init"]
               ELSE IF op.l \in DOMAIN f.vals[op.i]
               THEN [w |-> Exec(f, op, elapsed), ph |-> "done"]
               ELSE [w |-> with_label_values(f, op.i, op.l), ph |-> "op"]
               : f \in {Force(w, op.i)} })

\* The thread polling me is blocked in Lazy::force: the initializer it waits
\* for is still running.
Waits(w, me) ==
    /\ me.pc \in {"start", "ready"} /\ me.ph = "wait"
    /\ w.lazy[BlockOf(me)[me.ix].i] = "Running"

\* The record of tracker me once it has completed statement op.
Counted(me, op) ==
    [me EXCEPT !.ginc = IF op.i = "GAUGE_MP" /\ op.d = 1 THEN @ + 1 ELSE @,
               !.nstart = IF op.i = StartedCounter(me) THEN @ + 1 ELSE @,
               !.hcodes = IF op.i = HandledCounter(me) THEN Append(@, op.l[3]) ELSE @,
               !.nobs = IF op.i = LatencyHistogram(me) THEN @ + 1 ELSE @]

\* The thread polling me takes its next step in the block it is in, at clock
\* value clock. A step that panics (a refused registration, a poisoned Lazy,
\* a histogram child that cannot be created) unwinds the poll: started_at
\* stays as it is, what was recorded stays recorded. The closure's last
\* statement gives started_at its value and leads into this.inner.poll(cx);
\* the Ready branch's last statement is followed by the return of
\* Poll::Ready(v). out is what the poll hands its caller in this step: nothing
\* (None) while it goes on.
PollStmtStep(w, me, clock) ==
    LET ops == BlockOf(me)
        op == ops[me.ix]
        last == me.ix = Len(ops)
    IN  The({ [w |-> s.w,
               me |-> IF s.w.panic
                      THEN [me EXCEPT !.pc = "idle", !.ix = 0, !.ph = "use", !.got = None,
                                      !.elapsed = 0, !.panics = @ + 1]
                      ELSE IF s.ph # "done"
                      THEN [me EXCEPT !.ph = s.ph]
                      ELSE IF me.pc = "start"
                      THEN [Counted(me, op) EXCEPT
                               !.started_at = IF op.k = "now" THEN Some(clock) ELSE @,
                               !.pc = IF last THEN "inner" ELSE @,
                               !.ix = IF last THEN 0 ELSE @ + 1,
                               !.ph = "use"]
                      ELSE IF last
                      THEN [Counted(me, op) EXCEPT
                               !.pc = "idle", !.ix = 0, !.ph = "use", !.got = None,
                               !.elapsed = 0,
                               !.polls = @ + 1, !.readies = @ + 1,
                               !.last_code = Classify(PollOutput(me.got)[2])]
                      ELSE [Counted(me, op) EXCEPT !.ix = @ + 1, !.ph = "use"],
               out |-> IF s.w.panic THEN Panic
                       ELSE IF me.pc = "ready" /\ last /\ s.ph = "done" THEN PollOutput(me.got)
                       ELSE None,
               inner |-> me.got]
              : s \in {StmtStep(w, op, me.ph, me.elapsed)} })

\* A poll of tracker me is entered: the slices of the path (a slice out of
\* bounds unwinds), then get_or_insert_with, which goes into the start closure
\* if started_at is None and else straight on to this.inner.poll(cx).
PollEnter(me) ==
    LET sliced == me.kind = "server" => RpcLabelsDefined(me.path, me.sep)
        me1 == [me EXCEPT !.calls = @ + 1]
    IN  IF ~sliced
        THEN [me |-> [me1 EXCEPT !.panics = @ + 1], out |-> Panic]
        ELSE IF NeedsStart(me)
        THEN [me |-> [me1 EXCEPT !.pc = "start", !.ix = 1, !.ph = "use"], out |-> None]
        ELSE [me |-> [me1 EXCEPT !.pc = "inner"], out |-> None]

\* this.inner.poll(cx) answers r at clock value clock: Pending is handed on,
\* an unwinding inner future unwinds the poll, and on Ready(v) the thread
\* enters the Ready branch with code and elapsed computed (the second
\* Instant::now()).
PollInnerReturn(me, r, clock) ==
    IF r = Panic
    THEN [me |-> [me EXCEPT !.pc = "idle", !.panics = @ + 1], out |-> Panic]
    ELSE IF ~Completes(r)
    THEN [me |-> [me EXCEPT !.pc = "idle", !.polls = @ + 1], out |-> PollOutput(r)]
    ELSE [me |-> [me EXCEPT !.pc = "ready", !.ix = 1, !.ph = "use", !.got = r,
                            !.elapsed = Elapsed(clock, Unwrap(me.started_at))],
          out |-> None]

\* ------------------------------------------------------------------ actions
NoRet == [op |-> "none", t |-> 0, out |-> None, inner |-> None]

Init ==
    /\ cell = None
    /\ lazy = [i \in Instruments |-> "Uninit"]
    /\ initRuns = [i \in Instruments |-> 0]
    /\ registries = [r \in Registries |-> {}]
    /\ vals = [i \in Instruments |-> <<>>]
    /\ tr = [t \in TrackerIds |-> NoTracker]
    /\ now = 0
    /\ inits = <<>>
    /\ ret = NoRet

SetWorld(w) ==
    /\ cell' = w.cell
    /\ lazy' = w.lazy
    /\ initRuns' = w.initRuns
    /\ registries' = w.registries
    /\ vals' = w.vals

\* The next free tracker slot.
FreeSlot(t) == tr[t].st = "none" /\ \A u \in 1..(t - 1) : tr[u].st # "none"

\* MetricsFuture::new called by anyone else, with a separator of their choice.
NewFuture(t, method, path, sep) ==
    /\ FreeSlot(t)
    /\ tr' = [tr EXCEPT ![t] = MetricsFuture(method, path, sep)]
    /\ ret' = NoRet
    /\ UNCHANGED <<cell, lazy, initRuns, registries, vals, now, inits>>

\* MetricsService::call
ServerCall(t, method, path) ==
    /\ FreeSlot(t)
    /\ tr' = [tr EXCEPT ![t] =
                 [MetricsFuture(method, path, ServiceMethodSeparator(path))
                     EXCEPT !.via = "call"]]
    /\ ret' = NoRet
    /\ UNCHANGED <<cell, lazy, initRuns, registries, vals, now, inits>>

\* MetricsChannel::call
ClientCall(t, gm) ==
    /\ FreeSlot(t)
    /\ tr' = [tr EXCEPT ![t] =
                 [(IF IsSome(gm) THEN MetricsChannelFuture(Unwrap(gm)[1], Unwrap(gm)[2])
                   ELSE MetricsChannelFuture("", "")) EXCEPT !.via = "call"]]
    /\ ret' = NoRet
    /\ UNCHANGED <<cell, lazy, initRuns, registries, vals, now, inits>>

\* Polls entered, over all trackers.
RECURSIVE SumCalls(_)
SumCalls(n) == IF n = 0 THEN 0 ELSE tr[n].calls + SumCalls(n - 1)
TotalCalls == SumCalls(MaxTrackers)

\* What a step of a poll of t leaves as the last return: nothing while the
\* poll goes on.
PollRet(t, out, inner) ==
    IF out = None THEN NoRet ELSE [op |-> "poll", t |-> t, out |-> out, inner |-> inner]

\* poll is entered.
PollBegin(t) ==
    /\ tr[t].st = "live" /\ tr[t].pc = "idle"
    /\ TotalCalls < MaxPolls
    /\ LET p == PollEnter(tr[t])
       IN  /\ tr' = [tr EXCEPT ![t] = p.me]
           /\ ret' = PollRet(t, p.out, None)
    /\ UNCHANGED <<cell, lazy, initRuns, registries, vals, now, inits>>

\* The thread inside poll takes its next step in the start closure or in the
\* Ready branch.
PollStmt(t) ==
    /\ tr[t].st = "live" /\ tr[t].pc \in {"start", "ready"}
    /\ ~Waits(World, tr[t])
    /\ LET p == PollStmtStep(World, tr[t], now)
       IN  /\ SetWorld(p.w)
           /\ tr' = [tr EXCEPT ![t] = p.me]
           /\ ret' = PollRet(t, p.out, p.inner)
    /\ UNCHANGED <<now, inits>>

\* this.inner.poll(cx) returns r (or unwinds).
PollEnd(t, r) ==
    /\ tr[t].st = "live" /\ tr[t].pc = "inner"
    /\ r \in InnerPoll(tr[t])
    /\ LET p == PollInnerReturn(tr[t], r, now)
       IN  /\ tr' = [tr EXCEPT ![t] = p.me]
           /\ ret' = PollRet(t, p.out, r)
    /\ UNCHANGED <<cell, lazy, initRuns, registries, vals, now, inits>>

\* <MetricsFuture as Future>::poll
ServerPollBegin(t) == tr[t].kind = "server" /\ PollBegin(t)
ServerPollStmt(t) == tr[t].kind = "server" /\ PollStmt(t)
ServerPollEnd(t, r) == tr[t].kind = "server" /\ PollEnd(t, r)

\* <MetricsChannelFuture as Future>::poll
ClientPollBegin(t) == tr[t].kind = "client" /\ PollBegin(t)
ClientPollStmt(t) == tr[t].kind = "client" /\ PollStmt(t)
ClientPollEnd(t, r) == tr[t].kind = "client" /\ PollEnd(t, r)

\* Every statement of a block run in one go.
RECURSIVE RunAll(_, _, _, _)
RunAll(w, ops, k, elapsed) ==
    IF k > Len(ops) THEN w
    ELSE RunAll(Exec(with_label_values(w, ops[k].i, ops[k].l), ops[k], elapsed),
                ops, k + 1, elapsed)

DropEffectRecords(w, me) ==
    IF ~IsSome(me.started_at) \/ me.readies > 0 THEN w
    ELSE IF me.kind = "server" THEN RunAll(w, ServerComplete(me, ErrResult), 1, 0)
    ELSE RunAll(w, ClientComplete(me, ErrResult), 1, 0)

\* The owner drops the tracker; neither future type implements Drop.
DropEffect(w, me) == w

Drop(t) ==
    /\ tr[t].st = "live" /\ tr[t].pc = "idle"
    /\ SetWorld(DropEffect(World, tr[t]))
    /\ tr' = [tr EXCEPT ![t].st = "dropped"]
    /\ ret' = NoRet
    /\ UNCHANGED <<now, inits>>

try_insert_overwriting(c, s) == [cell |-> Some(s), res |-> "Ok"]

\* OnceCell::try_insert: stores the value only while the cell is empty.
try_insert(c, s) ==
    IF IsSome(c) THEN [cell |-> c, res |-> "AlreadyInitialized"]
    ELSE [cell |-> Some(s), res |-> "Ok"]

\* try_init_settings
TryInit(s) ==
    /\ Len(inits) < MaxInits
    /\ LET r == try_insert(cell, s)
       IN  /\ cell' = r.cell
           /\ inits' = Append(inits, [settings |-> s, before |-> cell, res |-> r.res])
           /\ ret' = [NoRet EXCEPT !.op = "try_init_settings", !.out = <<r.res>>]
    /\ UNCHANGED <<lazy, initRuns, registries, vals, tr, now>>

\* Registry::gather on the settings' registry: the series of every collector in it.
Gather(w) ==
    LET reg == w.registries[Unwrap(w.cell).registry]
    IN  [i \in {j \in Instruments : \E c \in reg : c.name = MetricName(j)} |-> w.vals[i]]

\* The label names in the order the exposition format lists them (by name).
LabelNameOrder == <<"grpc_code", "grpc_method", "grpc_service", "method", "path">>

\* The label pairs of series l of instrument i as one exposition line carries
\* them: name="value" pairs sorted by label name, whatever the order of the
\* schema the instrument was registered with.
LabelPairs(i, l) ==
    LET schema == LabelSchema(i)
        InSchema(n) == \E k \in 1..Len(schema) : schema[k] = n
        names == SelectSeq(LabelNameOrder, InSchema)
    IN  [k \in 1..Len(names) |->
            <<names[k], l[CHOOSE j \in 1..Len(schema) : schema[j] = names[k]]>>]

\* TextEncoder::encode_utf8 over the gathered families: one sample line per
\* counter or gauge series, a _count and a _sum line per histogram series.
Render(g) ==
    UNION { IF i \in Histograms
            THEN UNION { { [name |-> MetricName(i), suffix |-> "_count",
                            labels |-> LabelPairs(i, l), value |-> g[i][l][1]],
                           [name |-> MetricName(i), suffix |-> "_sum",
                            labels |-> LabelPairs(i, l), value |-> g[i][l][2]] }
                         : l \in DOMAIN g[i] }
            ELSE { [name |-> MetricName(i), suffix |-> "",
                    labels |-> LabelPairs(i, l), value |-> g[i][l]]
                   : l \in DOMAIN g[i] }
            : i \in DOMAIN g }

EncodeMetricsOtherRegistry(w) ==
    Render(Gather([w EXCEPT !.cell = Some([Unwrap(@) EXCEPT !.registry = "registry_a"])]))

\* GlobalSettings::encode_metrics on the settings in effect.
EncodeMetrics(w) == Render(Gather(w))

\* encode_to_string by a thread that finds GLOBAL_SETTINGS empty: get_settings()
\* materializes the default, encode_metrics is still to come.
EncodeGetSettings ==
    /\ ~IsSome(cell)
    /\ cell' = get_settings(World).cell
    /\ ret' = NoRet
    /\ UNCHANGED <<lazy, initRuns, registries, vals, tr, now, inits>>

\* encode_to_string: encode_metrics on the settings get_settings() returned.
Encode ==
    /\ IsSome(cell)
    /\ ret' = [NoRet EXCEPT !.op = "encode_to_string", !.out = <<"Ok", EncodeMetrics(World)>>]
    /\ UNCHANGED <<cell, lazy, initRuns, registries, vals, tr, now, inits>>

\* Time passes.
Tick ==
    /\ now < MaxClock
    /\ now' = now + 1
    /\ UNCHANGED <<cell, lazy, initRuns, registries, vals, tr, inits, ret>>

\* Calls under the default settings: a server path that splits into service and
\* method and a client method, the inner call pending, resolving with or
\* without a grpc-status, or unwinding.
HealthCheck == Some(<<"grpc.health.v1.Health", "Check">>)
PollAnswers == {Pending, Panic, Ready(Response(None)), Ready(Response(Some(<<"5">>)))}

Next ==
    \/ \E t \in TrackerIds, m \in HttpMethods : ServerCall(t, m, GrpcPath)
    \/ \E t \in TrackerIds : ClientCall(t, HealthCheck)
    \/ \E t \in TrackerIds : ServerPollBegin(t)
    \/ \E t \in TrackerIds : ServerPollStmt(t)
    \/ \E t \in TrackerIds, r \in PollAnswers : ServerPollEnd(t, r)
    \/ \E t \in TrackerIds : ClientPollBegin(t)
    \/ \E t \in TrackerIds : ClientPollStmt(t)
    \/ \E t \in TrackerIds, r \in PollAnswers : ClientPollEnd(t, r)
    \/ \E t \in TrackerIds : Drop(t)

Spec == Init /\ [][Next]_vars

\* Settings initialisation racing with the first use of the instruments: one
\* request shape per side is enough to touch every instrument (here a path with
\* no second separator and a request without the GrpcMethod extension).
NextSettings ==
    \/ \E s \in SettingsChoices : TryInit(s)
    \/ EncodeGetSettings
    \/ Encode
    \/ \E t \in TrackerIds : ServerCall(t, "POST", PlainPath)
    \/ \E t \in TrackerIds : ClientCall(t, None)
    \/ \E t \in TrackerIds : ServerPollBegin(t)
    \/ \E t \in TrackerIds : ServerPollStmt(t)
    \/ \E t \in TrackerIds : ServerPollEnd(t, Ready(Response(None)))
    \/ \E t \in TrackerIds : ClientPollBegin(t)
    \/ \E t \in TrackerIds : ClientPollStmt(t)
    \/ \E t \in TrackerIds : ClientPollEnd(t, Ready(Response(None)))

SpecSettings == Init /\ [][NextSettings]_vars

\* Calls of both sides resolving with an explicit status, without one or with a
\* failure, and the metrics rendered at any point in between.
EncodeAnswers ==
    {Pending, Ready(Response(None)), Ready(Response(Some(<<"5">>))), Ready(ErrResult)}

NextEncode ==
    \/ \E t \in TrackerIds : ServerCall(t, "POST", GrpcPath)
    \/ \E t \in TrackerIds : ClientCall(t, HealthCheck)
    \/ \E t \in TrackerIds : ServerPollBegin(t)
    \/ \E t \in TrackerIds : ServerPollStmt(t)
    \/ \E t \in TrackerIds, r \in EncodeAnswers : ServerPollEnd(t, r)
    \/ \E t \in TrackerIds : ClientPollBegin(t)
    \/ \E t \in TrackerIds : ClientPollStmt(t)
    \/ \E t \in TrackerIds, r \in EncodeAnswers : ClientPollEnd(t, r)
    \/ EncodeGetSettings
    \/ Encode

SpecEncode == Init /\ [][NextEncode]_vars

\* What a direct caller of MetricsFuture::new may pass: a path and a separator
\* that is the first boundary, a later one, none, or beyond the path.
NewPaths == {<<"/", "a", "/", "b">>, <<"/", "a", "/", "b", "/", "a">>}
NewSeps == {None, Some(2), Some(4), Some(7)}

\* One server call with any path, or one tracker built directly, polled to
\* completion.
NextParse ==
    \/ \E path \in Paths : ServerCall(1, "POST", path)
    \/ \E path \in NewPaths, sep \in NewSeps : NewFuture(1, "POST", path, sep)
    \/ \E t \in TrackerIds : ServerPollBegin(t)
    \/ \E t \in TrackerIds : ServerPollStmt(t)
    \/ \E t \in TrackerIds, r \in {Pending, Ready(Response(None))} : ServerPollEnd(t, r)

SpecParse == Init /\ [][NextParse]_vars

\* Every answer of the wrapped call.
ClassifyAnswers == {Pending} \cup {Ready(v) : v \in Results}

\* One call on either side, polled until it resolves.
NextClassify ==
    \/ ServerCall(1, "POST", GrpcPath)
    \/ ClientCall(1, HealthCheck)
    \/ tr[1].readies = 0 /\ ServerPollBegin(1)
    \/ ServerPollStmt(1)
    \/ \E r \in ClassifyAnswers : ServerPollEnd(1, r)
    \/ tr[1].readies = 0 /\ ClientPollBegin(1)
    \/ ClientPollStmt(1)
    \/ \E r \in ClassifyAnswers : ClientPollEnd(1, r)

SpecClassify == Init /\ [][NextClassify]_vars

\* The caller's registry already holds a collector under the name of one of
\* the instruments; the settings naming that registry may or may not be handed
\* in before the first call is polled.
InitCollide ==
    /\ cell = None
    /\ lazy = [i \in Instruments |-> "Uninit"]
    /\ initRuns = [i \in Instruments |-> 0]
    /\ \E i \in Instruments :
           registries = [r \in Registries |->
                            IF r = SharedSettings.registry THEN {ForeignCollector(i)} ELSE {}]
    /\ vals = [i \in Instruments |-> <<>>]
    /\ tr = [t \in TrackerIds |-> NoTracker]
    /\ now = 0
    /\ inits = <<>>
    /\ ret = NoRet

NextCollide ==
    \/ \E s \in {SharedSettings, SharedUnordered} : TryInit(s)
    \/ \E t \in TrackerIds : ServerCall(t, "POST", GrpcPath)
    \/ \E t \in TrackerIds : NewFuture(t, "POST", GrpcPath, Some(7))
    \/ \E t \in TrackerIds : ClientCall(t, HealthCheck)
    \/ \E t \in TrackerIds : ServerPollBegin(t)
    \/ \E t \in TrackerIds : ServerPollStmt(t)
    \/ \E t \in TrackerIds : ServerPollEnd(t, Ready(Response(None)))
    \/ \E t \in TrackerIds : ClientPollBegin(t)
    \/ \E t \in TrackerIds : ClientPollStmt(t)
    \/ \E t \in TrackerIds : ClientPollEnd(t, Ready(Response(None)))

SpecCollide == InitCollide /\ [][NextCollide]_vars

\* Calls with different identities side by side: two server paths under two
\* HTTP methods, a client call with and one without the GrpcMethod extension.
NextLabels ==
    \/ \E t \in TrackerIds, m \in {"POST", "GET"}, path \in {GrpcPath, PlainPath} :
           ServerCall(t, m, path)
    \/ \E t \in TrackerIds, gm \in {HealthCheck, None} : ClientCall(t, gm)
    \/ \E t \in TrackerIds : ServerPollBegin(t)
    \/ \E t \in TrackerIds : ServerPollStmt(t)
    \/ \E t \in TrackerIds, r \in {Pending, Ready(Response(None))} : ServerPollEnd(t, r)
    \/ \E t \in TrackerIds : ClientPollBegin(t)
    \/ \E t \in TrackerIds : ClientPollStmt(t)
    \/ \E t \in TrackerIds, r \in {Pending, Ready(Response(None))} : ClientPollEnd(t, r)

SpecLabels == Init /\ [][NextLabels]_vars

\* Calls of both sides polled while time passes.
NextTimed ==
    \/ \E t \in TrackerIds : ServerCall(t, "POST", GrpcPath)
    \/ \E t \in TrackerIds : ClientCall(t, HealthCheck)
    \/ \E t \in TrackerIds : ServerPollBegin(t)
    \/ \E t \in TrackerIds : ServerPollStmt(t)
    \/ \E t \in TrackerIds, r \in {Pending, Ready(Response(None))} : ServerPollEnd(t, r)
    \/ \E t \in TrackerIds : ClientPollBegin(t)
    \/ \E t \in TrackerIds : ClientPollStmt(t)
    \/ \E t \in TrackerIds, r \in {Pending, Ready(Response(None))} : ClientPollEnd(t, r)
    \/ Tick
SpecTimed == Init /\ [][NextTimed]_vars

\* ------------------------------------------------------- reading the metrics
Codes ==
    <<"Ok", "Cancelled", "Unknown", "InvalidArgument", "DeadlineExceeded", "NotFound",
      "AlreadyExists", "PermissionDenied", "ResourceExhausted", "FailedPrecondition",
      "Aborted", "OutOfRange", "Unimplemented", "Internal", "Unavailable", "DataLoss",
      "Unauthenticated">>

\* The started counter, the handled counter and the number of latency
\* observations of tracker me's label set, read from the metric values v.
StartedOf(v, me) == Val(v, StartedCounter(me), LabelsSM(me))
HandledOf(v, me, code) == Val(v, HandledCounter(me), LabelsSMC(me, code))
ObservedOf(v, me, code) == HVal(v, LatencyHistogram(me), LabelsSMC(me, code))[1]

RECURSIVE SumHandled(_, _, _)
SumHandled(v, me, n) ==
    IF n = 0 THEN 0 ELSE HandledOf(v, me, Codes[n]) + SumHandled(v, me, n - 1)
HandledTotal(v, me) == SumHandled(v, me, Len(Codes))

RECURSIVE SumObserved(_, _, _)
SumObserved(v, me, n) ==
    IF n = 0 THEN 0 ELSE ObservedOf(v, me, Codes[n]) + SumObserved(v, me, n - 1)
ObservedTotal(v, me) == SumObserved(v, me, Len(Codes))

Created(t) == tr[t].st # "none"

\* Trackers t and u are calls with the same label set.
SameLabels(t, u) ==
    /\ Created(t) /\ Created(u)
    /\ tr[t].kind = tr[u].kind
    /\ LabelsSM(tr[t]) = LabelsSM(tr[u])

\* The calls with the label set of t.
Peers(t) == {u \in TrackerIds : SameLabels(t, u)}

\* Every series of instrument i carries the labels some tracker of that kind emits.
SeriesOwned(i, kind) ==
    \A l \in DOMAIN vals[i] :
        \E t \in TrackerIds : Created(t) /\ tr[t].kind = kind /\ LabelsSM(tr[t]) = l

\* Tracker me has made its started increment; the handled increments and the
\* latency observations it has made.
StartedCounted(me) == me.nstart >= 1
HandledBy(me) == Len(me.hcodes)
ObservedBy(me) == me.nobs

\* The step is one of the thread polling tracker t / enters a poll of t /
\* has this.inner.poll(cx) of t return / unwinds out of the poll of t.
Acts(t) == tr[t].st = "live" /\ tr'[t] # tr[t] /\ tr'[t].st = "live"
Began(t) == Acts(t) /\ tr[t].pc = "idle"
Ended(t) == Acts(t) /\ tr[t].pc = "inner"
Unwound(t) == tr'[t].panics = tr[t].panics + 1

\* The statement the thread polling tracker t is in, if any.
NoStmt == Stmt("none", "", <<>>, 0)
At(t) == IF tr[t].pc \in {"start", "ready"} THEN BlockOf(tr[t])[tr[t].ix] ELSE NoStmt

\* The statement the step completes for tracker t, if any: its .inc(), .dec()
\* or .observe() takes effect, or the clock is read.
Runs(t) ==
    IF Acts(t) /\ ~Unwound(t) /\ (tr'[t].ix # tr[t].ix \/ tr'[t].pc # tr[t].pc)
    THEN At(t) ELSE NoStmt

\* ------------------------------------------------------------------ claims

C2_CompletedExactlyOnce ==
    \A t \in TrackerIds :
        Created(t) =>
            /\ HandledTotal(vals, tr[t])
                   = Cardinality({u \in Peers(t) : HandledBy(tr[u]) >= 1})
            /\ ObservedTotal(vals, tr[t])
                   = Cardinality({u \in Peers(t) : ObservedBy(tr[u]) >= 1})

\* C3: the statement that counts a call as started raises the started counter
\* of its label set by exactly 1 and leaves handled alone, and runs before the
\* call has counted anything as handled; the statement that counts it as
\* handled raises the handled counter of its label set and outcome code by
\* exactly 1 with started already counted and the start instant set; under any
\* interleaving of the statements of other calls' polls, handled is never
\* visible for a label set whose started counter is still 0.
C3_StartedBeforeHandled ==
    /\ [][\A t \in TrackerIds :
              /\ Runs(t).i = StartedCounter(tr[t]) =>
                     /\ StartedOf(vals', tr[t]) = StartedOf(vals, tr[t]) + 1
                     /\ HandledTotal(vals', tr[t]) = HandledTotal(vals, tr[t])
                     /\ HandledBy(tr[t]) = 0
              /\ Runs(t).i = HandledCounter(tr[t]) =>
                     /\ HandledOf(vals', tr[t], Classify(tr[t].got[2]))
                            = HandledOf(vals, tr[t], Classify(tr[t].got[2])) + 1
                     /\ StartedOf(vals', tr[t]) = StartedOf(vals, tr[t])
                     /\ StartedOf(vals, tr[t]) >= 1
                     /\ IsSome(tr[t].started_at)]_vars
    /\ [](\A t \in TrackerIds :
              (Created(t) /\ HandledTotal(vals, tr[t]) > 0) => StartedOf(vals, tr[t]) > 0)

\* Two interleaved calls with the same labels: one has completed while the
\* other stood inside its start closure, its started increment made and its
\* start instant not yet taken.
C3_Witness ==
    \E t, u \in TrackerIds :
        /\ t # u /\ SameLabels(t, u)
        /\ tr[t].polls = 1 /\ tr[t].readies = 1
        /\ tr[u].pc = "start" /\ StartedCounted(tr[u]) /\ ~IsSome(tr[u].started_at)
        /\ StartedOf(vals, tr[t]) = 2
        /\ HandledTotal(vals, tr[t]) = 1

\* C4: every poll of a tracker returns what the inner future returned at that
\* poll: Pending for Pending, Ready(v) with the same v for Ready(v) (and the
\* inner future's panic when it panics).
C4_Transparent == ret.op = "poll" => ret.out = ret.inner

\* The second poll of a tracker handed a response with a grpc-status through.
C4_Witness ==
    /\ ret.op = "poll"
    /\ ret.inner = Ready(Response(Some(<<"5">>)))
    /\ ret.out = Ready(Response(Some(<<"5">>)))
    /\ tr[ret.t].polls = 2

\* C5: per (service, method), grpc_server_started_total minus the sum of
\* grpc_server_handled_total over the codes is the number of ongoing requests:
\* the trackers that still exist, have started and have not completed.
C5_StartedMinusHandledIsOngoing ==
    \A t \in TrackerIds :
        (Created(t) /\ tr[t].kind = "server") =>
            StartedOf(vals, tr[t]) - HandledTotal(vals, tr[t])
                = Cardinality({u \in Peers(t) :
                                  /\ tr[u].st = "live"
                                  /\ StartedCounted(tr[u]) /\ HandledBy(tr[u]) = 0})

\* The Ready returns, the handled increments and the latency observations of
\* the calls with the label set of t, among trackers 1..n.
RECURSIVE SumReadies(_, _)
SumReadies(t, n) ==
    IF n = 0 THEN 0
    ELSE (IF SameLabels(t, n) THEN tr[n].readies ELSE 0) + SumReadies(t, n - 1)
RECURSIVE SumHandledBy(_, _)
SumHandledBy(t, n) ==
    IF n = 0 THEN 0
    ELSE (IF SameLabels(t, n) THEN HandledBy(tr[n]) ELSE 0) + SumHandledBy(t, n - 1)
RECURSIVE SumObservedBy(_, _)
SumObservedBy(t, n) ==
    IF n = 0 THEN 0
    ELSE (IF SameLabels(t, n) THEN ObservedBy(tr[n]) ELSE 0) + SumObservedBy(t, n - 1)

GaugeOf(v, me) == Val(v, "GAUGE_MP", LabelsMP(me))

\* C6: dropping a tracker emits nothing, and a dropped tracker never acts again:
\* every handled increment, latency observation and gauge decrement is
\* accounted for by a poll whose inner future answered Ready (one that has
\* returned, or one standing in its Ready branch), so none is ever produced for
\* a call dropped before completion; the started increment it made stays (the
\* started counter never goes down).
C6_DroppedEmitsNothing ==
    /\ [][\A t \in TrackerIds :
              /\ (tr[t].st = "live" /\ tr'[t].st = "dropped") => vals' = vals
              /\ tr[t].st = "dropped" => tr'[t] = tr[t]
              /\ Created(t) => StartedOf(vals', tr[t]) >= StartedOf(vals, tr[t])]_vars
    /\ [](\A t \in TrackerIds :
              Created(t) =>
                  /\ HandledTotal(vals, tr[t]) = SumHandledBy(t, MaxTrackers)
                  /\ ObservedTotal(vals, tr[t]) = SumObservedBy(t, MaxTrackers)
                  /\ tr[t].kind = "server" =>
                         GaugeOf(vals, tr[t])
                             = Cardinality({u \in Peers(t) : tr[u].ginc >= 1})
                                   - SumReadies(t, MaxTrackers))

\* One tracker dropped after a pending poll and one dropped before its first
\* poll, same labels: started stands at 1, handled at 0.
C6_Witness ==
    \E t, u \in TrackerIds :
        /\ t # u /\ SameLabels(t, u)
        /\ tr[t].st = "dropped" /\ tr[t].polls = 1 /\ tr[t].readies = 0
        /\ tr[u].st = "dropped" /\ tr[u].calls = 0
        /\ StartedOf(vals, tr[t]) = 1
        /\ HandledTotal(vals, tr[t]) = 0

\* C10: two calls with identical label sets, polled in any interleaving, each
\* add 1 to the shared counters: once both have started the started counter
\* counts them both, and once both have completed (each returning its final
\* value once) with the same code the handled counter of that code counts both.
C10_NoLostUpdate ==
    \A t, u \in TrackerIds :
        (t # u /\ SameLabels(t, u)) =>
            /\ (StartedCounted(tr[t]) /\ StartedCounted(tr[u])) =>
                   /\ StartedOf(vals, tr[t]) >= 2
                   /\ StartedOf(vals, tr[t])
                          = Cardinality({x \in Peers(t) : StartedCounted(tr[x])})
            /\ ( /\ \A x \in Peers(t) : HandledBy(tr[x]) <= 1 /\ tr[x].pc # "ready"
                 /\ tr[t].readies = 1 /\ tr[u].readies = 1
                 /\ tr[t].last_code = tr[u].last_code ) =>
                   /\ HandledOf(vals, tr[t], tr[t].last_code) >= 2
                   /\ HandledOf(vals, tr[t], tr[t].last_code)
                          = Cardinality({x \in Peers(t) :
                                            /\ tr[x].readies = 1
                                            /\ tr[x].last_code = tr[t].last_code})

\* Two calls polled side by side, each completed NotFound by its first poll.
C10_Witness ==
    \E t, u \in TrackerIds :
        /\ t # u /\ SameLabels(t, u)
        /\ tr[t].polls = 1 /\ tr[t].readies = 1 /\ tr[t].last_code = "NotFound"
        /\ tr[u].polls = 1 /\ tr[u].readies = 1 /\ tr[u].last_code = "NotFound"
        /\ StartedOf(vals, tr[t]) = 2
        /\ HandledOf(vals, tr[t], "NotFound") = 2

\* Every collector registered so far sits in the registry of settings s, every
\* histogram among them was given the bucket list of s, and every histogram
\* child created so far has the buckets that list stands for.
InEffect(s) ==
    /\ cell = Some(s)
    /\ \A r \in Registries :
           \A c \in registries[r] :
               /\ r = s.registry
               /\ IsSome(c.buckets) => c.buckets = Some(s.histogram_buckets)
    /\ \A i \in Histograms : \A l \in DOMAIN vals[i] :
           /\ BucketsValid(s.histogram_buckets)
           /\ vals[i][l][3] = ChildBuckets(s.histogram_buckets)

\* C7 as stated: of two try_init_settings calls exactly one returns Ok and the
\* other AlreadyInitialized, and the successful call's settings are in effect.
C7_ExactlyOneOk ==
    Len(inits) >= 2 =>
        \E k \in 1..2 :
            /\ inits[k].res = "Ok"
            /\ inits[3 - k].res = "AlreadyInitialized"
            /\ InEffect(inits[k].settings)

\* C7 amended: a try_init_settings call returns Ok exactly when GLOBAL_SETTINGS
\* was still empty (nothing set, no default materialized by an earlier
\* get_settings, be it one of encode_to_string or one inside the initializer
\* of an instrument whose first use is still under way; a first use that has
\* entered the initializer and not yet called get_settings has materialized
\* nothing) and AlreadyInitialized otherwise; so the second of two calls always returns AlreadyInitialized, at
\* most one call returns Ok, and the settings of a successful call stay in
\* effect: theirs is the registry every instrument registers in and theirs the
\* bucket list of every histogram created afterwards (an empty list standing
\* for prometheus's default buckets; with a list that is not strictly
\* increasing no histogram child is ever created).
C7_AtMostOneOk ==
    \A k \in 1..Len(inits) :
        /\ inits[k].res = (IF IsSome(inits[k].before) THEN "AlreadyInitialized" ELSE "Ok")
        /\ k >= 2 => inits[k].res = "AlreadyInitialized"
        /\ inits[k].res = "Ok" =>
               /\ \A j \in 1..Len(inits) : j # k => inits[j].res = "AlreadyInitialized"
               /\ InEffect(inits[k].settings)

\* Two calls with different settings: the first succeeded, the per-path
\* latency histogram has since been created with its buckets, and the second
\* has just been refused while the first use of another instrument was under
\* way, its thread inside the initializer and not yet at get_settings.
C7_Witness ==
    /\ Len(inits) = 2
    /\ inits[1].res = "Ok" /\ inits[2].res = "AlreadyInitialized"
    /\ inits[1].settings # inits[2].settings
    /\ ret.op = "try_init_settings"
    /\ \E i \in Instruments : lazy[i] = "Running"
    /\ \E t \in TrackerIds : tr[t].st = "live" /\ tr[t].ph = "init"
    /\ lazy["HISTOGRAM_MP"] = "Init"
    /\ \E l \in DOMAIN vals["HISTOGRAM_MP"] :
           vals["HISTOGRAM_MP"][l][3] = inits[1].settings.histogram_buckets
    /\ \E c \in registries[inits[1].settings.registry] :
           /\ c.name = MetricName("HISTOGRAM_MP")
           /\ c.buckets = Some(inits[1].settings.histogram_buckets)

\* C8: once GLOBAL_SETTINGS holds a value it never changes; the first read
\* through get_settings (by the initializer of the first instrument used, or
\* by encode_to_string) stores the default when nothing was set; a
\* try_init_settings call made after that, also one made while that
\* initializer or that encode_to_string is still under way, returns
\* AlreadyInitialized; and GLOBAL_SETTINGS holds a value from the moment a
\* thread inside an initializer has called get_settings, hence whenever an
\* instrument is registered or poisoned, and whenever encode_to_string has
\* returned. (A thread that has entered an initializer and not yet called
\* get_settings, or one blocked behind it, has read nothing.)
C8_WriteOnce ==
    /\ [][ /\ IsSome(cell) => cell' = cell
           /\ (~IsSome(cell) /\ IsSome(cell') /\ inits' = inits) =>
                  cell' = Some(DefaultSettings)
           /\ (IsSome(cell) /\ Len(inits') = Len(inits) + 1) =>
                  /\ inits'[Len(inits')].res = "AlreadyInitialized"
                  /\ ret'.out = <<"AlreadyInitialized">> ]_vars
    /\ [][ \A t \in TrackerIds :
               (tr[t].ph = "init" /\ tr'[t].ph # "init") =>
                   /\ IsSome(cell') /\ tr'[t].ph = "reg"
                   /\ ~IsSome(cell) => cell' = Some(DefaultSettings) ]_vars
    /\ []( ( \/ \E i \in Instruments : lazy[i] \in {"Init", "Poisoned"}
             \/ \E t \in TrackerIds : tr[t].st = "live" /\ tr[t].ph = "reg"
             \/ ret.op = "encode_to_string" )
               => IsSome(cell) )

\* The first use of an instrument is under way: its initializer has called
\* get_settings, which materialized the default, and registered nothing yet,
\* and a try_init_settings call made at this point has just been refused.
C8_Witness ==
    /\ cell = Some(DefaultSettings)
    /\ ret.op = "try_init_settings" /\ ret.out = <<"AlreadyInitialized">>
    /\ inits[Len(inits)].before = Some(DefaultSettings)
    /\ lazy["GAUGE_MP"] = "Running"
    /\ \E t \in TrackerIds : tr[t].st = "live" /\ tr[t].ph = "reg"
    /\ \A r \in Registries : registries[r] = {}

\* The collectors registered under the name of instrument i, in any registry.
Registered(i) ==
    {rc \in UNION {{<<r, c>> : c \in registries[r]} : r \in Registries} :
        rc[2].name = MetricName(i)}

\* The trackers whose thread is inside the initializer of instrument i / is
\* blocked in front of it.
Initializing(i) ==
    {t \in TrackerIds : tr[t].st = "live" /\ tr[t].ph \in {"init", "reg"} /\ At(t).i = i}
Blocked(i) ==
    {t \in TrackerIds : tr[t].st = "live" /\ tr[t].ph = "wait" /\ At(t).i = i}

\* C9: the initializer of each instrument is entered at most once however many
\* calls use the instrument for the first time side by side: one thread runs
\* it, every other caller waits in front of it until it is through and then
\* acts on the instrument it made; exactly one collector of the instrument's
\* name reaches the registry (the one of the settings in effect), none before
\* the initializer registered it, and no series exists before that; the
\* callers' increments add up in the one instrument.
C9_RegisteredOnce ==
    /\ \A i \in Instruments :
           /\ initRuns[i] <= 1
           /\ lazy[i] \in {"Uninit", "Running", "Init"}
           /\ lazy[i] = "Uninit" <=> initRuns[i] = 0
           /\ Cardinality(Initializing(i)) = (IF lazy[i] = "Running" THEN 1 ELSE 0)
           /\ Blocked(i) # {} => lazy[i] \in {"Running", "Init"}
           /\ Cardinality(Registered(i)) = (IF lazy[i] = "Init" THEN 1 ELSE 0)
           /\ \A rc \in Registered(i) : IsSome(cell) /\ rc[1] = Unwrap(cell).registry
           /\ vals[i] # <<>> => lazy[i] = "Init"
    /\ \A t \in TrackerIds :
           (Created(t) /\ StartedCounted(tr[t])) =>
               /\ lazy[StartedCounter(tr[t])] = "Init"
               /\ StartedOf(vals, tr[t])
                      = Cardinality({u \in Peers(t) : StartedCounted(tr[u])})

\* Two calls use the instruments for the first time side by side: both are in
\* the first use of the started counter, one inside its initializer (at its
\* first statement) and the other waiting in front of it, after the gauge went through the same: it is
\* registered once, in the registry handed to try_init_settings, and counts
\* them both.
C9_Witness ==
    \E t, u \in TrackerIds :
        /\ t # u /\ SameLabels(t, u) /\ tr[t].kind = "server"
        /\ Initializing("COUNTER_SM") = {t} /\ Blocked("COUNTER_SM") = {u}
        /\ tr[t].ph = "init"
        /\ tr[t].ginc = 1 /\ tr[u].ginc = 1
        /\ initRuns["GAUGE_MP"] = 1 /\ initRuns["COUNTER_SM"] = 1
        /\ Val(vals, "GAUGE_MP", LabelsMP(tr[t])) = 2
        /\ IsSome(cell) /\ Unwrap(cell).registry = "registry_a"
        /\ Cardinality(Registered("GAUGE_MP")) = 1
        /\ Registered("COUNTER_SM") = {}

\* The value of the handled counter of (labels of me, code) in rendered text:
\* the value on its line, 0 when the text has no such line.
RenderedHandled(lines, me, code) ==
    LET hit == {ln \in lines :
                   /\ ln.name = MetricName(HandledCounter(me)) /\ ln.suffix = ""
                   /\ ln.labels = LabelPairs(HandledCounter(me), LabelsSMC(me, code))}
    IN  IF hit = {} THEN 0 ELSE (CHOOSE ln \in hit : TRUE).value

\* C11: after any sequence of calls driven to completion (no poll is under
\* way, and no tracker was polled on after it returned its final value), the
\* text encode_to_string returns carries, for every (service, method, code),
\* the handled counter at the number of completed calls with that service and
\* method whose outcome classified as that code: one line per such series with
\* at least one call, no line otherwise, and no handled line for labels no
\* call had.
C11_RenderedHandledCounts ==
    (ret.op = "encode_to_string"
        /\ \A t \in TrackerIds : tr[t].pc = "idle" /\ tr[t].readies <= 1) =>
        /\ ret.out[1] = "Ok"
        /\ \A t \in TrackerIds : \A k \in 1..Len(Codes) :
               Created(t) =>
                   LET n == Cardinality({u \in Peers(t) :
                                           tr[u].readies = 1 /\ tr[u].last_code = Codes[k]})
                       hit == {ln \in ret.out[2] :
                                  /\ ln.name = MetricName(HandledCounter(tr[t]))
                                  /\ ln.suffix = ""
                                  /\ ln.labels = LabelPairs(HandledCounter(tr[t]),
                                                            LabelsSMC(tr[t], Codes[k]))}
                   IN  /\ RenderedHandled(ret.out[2], tr[t], Codes[k]) = n
                       /\ Cardinality(hit) = (IF n = 0 THEN 0 ELSE 1)
        /\ \A ln \in ret.out[2] :
               (ln.suffix = "" /\ ln.name \in {MetricName("COUNTER_SMC"),
                                                MetricName("CLIENT_COUNTER_HANDLED")}) =>
                   \E t \in TrackerIds : \E k \in 1..Len(Codes) :
                       /\ Created(t)
                       /\ ln.name = MetricName(HandledCounter(tr[t]))
                       /\ ln.labels = LabelPairs(HandledCounter(tr[t]),
                                                 LabelsSMC(tr[t], Codes[k]))

\* Two calls to grpc.health.v1.Health/Check, one resolved Ok and one NotFound,
\* then rendered: one handled line each, at value 1.
C11_Witness ==
    /\ ret.op = "encode_to_string"
    /\ \A t \in TrackerIds : tr[t].pc = "idle"
    /\ \E t, u \in TrackerIds :
           /\ t # u /\ tr[t].kind = "client" /\ tr[u].kind = "client"
           /\ tr[t].readies = 1 /\ tr[t].last_code = "Ok"
           /\ tr[u].readies = 1 /\ tr[u].last_code = "NotFound"
    /\ \A c \in {"Ok", "NotFound"} :
           [name |-> "grpc_client_handled_total", suffix |-> "",
            labels |-> << <<"grpc_code", c>>, <<"grpc_method", "Check">>,
                          <<"grpc_service", "grpc.health.v1.Health">> >>,
            value |-> 1] \in ret.out[2]

\* The server trackers made by MetricsService::call whose poll ran its start
\* closure.
PolledServer ==
    {t \in TrackerIds :
        tr[t].kind = "server" /\ tr[t].via = "call" /\ StartedCounted(tr[t])}

\* The (service, method) label values tracker t emitted: the ones on the series
\* of the started counter, which only its polls have touched.
EmittedSM(t) == DOMAIN vals["COUNTER_SM"]

\* C12: identity parsing is total and splits at the first boundary only. For
\* every path handed to MetricsService::call (the empty path, "/", "//"
\* included) label extraction never unwinds, every poll hands on what the inner
\* future answered, and the labels emitted are a pair of strings; a path that begins with '/' and has a further
\* '/' gives service = the text between the leading '/' and the first further
\* '/' (so service holds no '/') and method = all that follows it, later
\* separators included; a path that does not begin with '/' gives ("", path).
C12_ParsingTotalFirstBoundary ==
    \A t \in TrackerIds :
        (Created(t) /\ tr[t].kind = "server" /\ tr[t].via = "call") =>
            LET p == tr[t].path
                chars == {p[k] : k \in 1..Len(p)}
            IN  /\ tr[t].panics = 0
                /\ StartedCounted(tr[t]) =>
                       /\ Cardinality(EmittedSM(t)) = 1
                       /\ \A l \in EmittedSM(t) :
                              /\ Len(l) = 2
                              /\ l[1] \in Seq(chars) /\ l[2] \in Seq(chars)
                              /\ (Len(p) >= 1 /\ p[1] = "/"
                                      /\ \E k \in 2..Len(p) : p[k] = "/") =>
                                     /\ <<"/">> \o l[1] \o <<"/">> \o l[2] = p
                                     /\ \A k \in 1..Len(l[1]) : l[1][k] # "/"
                              /\ (Len(p) = 0 \/ p[1] # "/") => l = <<<<>>, p>>
                /\ (ret.op = "poll" /\ ret.t = t) => ret.out = ret.inner

\* "/pkg.Service/Method" was polled and counted under ("pkg.Service", "Method").
C12_Witness ==
    /\ tr[1].path = PkgServiceMethod /\ tr[1].readies = 1
    /\ Val(vals, "COUNTER_SM",
           << <<"p", "k", "g", ".", "S", "e", "r", "v", "i", "c", "e">>,
              <<"M", "e", "t", "h", "o", "d">> >>) = 1

\* C13 as stated: a path with a leading separator and no second one gives
\* service "" and method = the path with its leading separator stripped.
C13_LeadingSeparatorStripped ==
    \A t \in PolledServer :
        LET p == tr[t].path
        IN  (Len(p) >= 1 /\ p[1] = "/" /\ \A k \in 2..Len(p) : p[k] # "/") =>
                EmittedSM(t) = { <<<<>>, SubSeq(p, 2, Len(p))>> }

\* C13 amended: such a path gives service "" and method = the entire path, its
\* leading separator included ("/onlyservice" gives ("", "/onlyservice")).
C13_WholePathIsMethod ==
    \A t \in PolledServer :
        LET p == tr[t].path
        IN  (Len(p) >= 1 /\ p[1] = "/" /\ \A k \in 2..Len(p) : p[k] # "/") =>
                /\ EmittedSM(t) = { <<<<>>, p>> }
                /\ \A c \in DOMAIN vals["COUNTER_SMC"] : c[1] = <<>> /\ c[2] = p

\* "/onlyservice" completed and was counted under ("", "/onlyservice").
C13_Witness ==
    /\ tr[1].path = OnlyService /\ tr[1].readies = 1
    /\ Val(vals, "COUNTER_SM", <<<<>>, OnlyService>>) = 1
    /\ Val(vals, "COUNTER_SMC", <<<<>>, OnlyService, "Ok">>) = 1

\* The decimal text of a status number below 100.
Digits == <<"0", "1", "2", "3", "4", "5", "6", "7", "8", "9">>
Decimal(n) ==
    IF n < 10 THEN <<Digits[n + 1]>> ELSE <<Digits[(n \div 10) + 1], Digits[(n % 10) + 1]>>

\* The codes that may stand on a completed observation for inner result v as
\* the claim has it: Unknown for a failure, Ok for a response without
\* grpc-status, the status numbered n (Codes lists them by number, from 0) for a
\* grpc-status holding the decimal n, and some defined code for any other value.
NamedCodes(v) ==
    IF ~v.ok THEN {"Unknown"}
    ELSE IF ~IsSome(v.status) THEN {"Ok"}
    ELSE IF \E n \in 0..16 : Unwrap(v.status) = Decimal(n)
         THEN {Codes[n + 1] : n \in {m \in 0..16 : Unwrap(v.status) = Decimal(m)}}
    ELSE {Codes[k] : k \in 1..Len(Codes)}

\* C14: outcome classification is total and follows the inner result: whenever
\* the inner future resolves (with a failure, a response without grpc-status,
\* or a response with any grpc-status value, well-formed or not) the poll goes
\* into its Ready branch, no statement of the branch unwinds, the handled
\* statement raises exactly one handled series of the call's labels, by 1: the
\* one whose code is Unknown for a failure, Ok for a missing grpc-status, and
\* the status the field names when it names one; and the poll returns what the
\* inner future answered.
C14_ClassificationTotal ==
    [][ /\ Ended(1) =>
               /\ ~Unwound(1)
               /\ \/ ret'.op = "poll" /\ ret'.inner = Pending /\ ret'.out = Pending
                  \/ tr'[1].pc = "ready" /\ IsReady(tr'[1].got) /\ tr'[1].ix = 1
        /\ (Acts(1) /\ tr[1].pc = "ready") =>
               LET me == tr[1]
                   v == me.got[2]
                   up == {k \in 1..Len(Codes) :
                             HandledOf(vals', me, Codes[k]) = HandledOf(vals, me, Codes[k]) + 1}
                   same == {k \in 1..Len(Codes) :
                               HandledOf(vals', me, Codes[k]) = HandledOf(vals, me, Codes[k])}
               IN  /\ ~Unwound(1)
                   /\ Cardinality(up) = (IF Runs(1).i = HandledCounter(me) THEN 1 ELSE 0)
                   /\ up \cup same = 1..Len(Codes)
                   /\ \A k \in up : Codes[k] \in NamedCodes(v)
                   /\ tr'[1].pc = "idle" =>
                          /\ ret'.out = me.got /\ ret'.inner = me.got
                          /\ tr'[1].readies = me.readies + 1
                   /\ DOMAIN vals'[HandledCounter(me)]
                          \subseteq {LabelsSMC(me, Codes[k]) : k \in 1..Len(Codes)} ]_vars

\* A server call resolved with grpc-status "16" and stands under Unauthenticated.
C14_Witness ==
    /\ ret.op = "poll" /\ ret.inner = Ready(Response(Some(<<"1", "6">>)))
    /\ tr[1].kind = "server"
    /\ HandledOf(vals, tr[1], "Unauthenticated") = 1

Changed(i) ==
    {l \in DOMAIN vals'[i] : l \notin DOMAIN vals[i] \/ vals'[i][l] # vals[i][l]}

\* The instrument the step of tracker t is about, if it is a step inside an
\* instrument statement.
UsedAt(t) ==
    IF Acts(t) /\ At(t).k \in {"add", "observe"} THEN {At(t).i} ELSE {}

\* The step of tracker t enters a poll whose path slices are out of bounds
\* (a separator handed to MetricsFuture::new that lies beyond the path).
SliceFails(t) ==
    Began(t) /\ tr[t].kind = "server" /\ ~RpcLabelsDefined(tr[t].path, tr[t].sep)

\* The step of tracker t asks a registered histogram for a child it has not
\* got, under settings whose bucket list is not strictly increasing.
ChildFails(t) ==
    /\ Acts(t) /\ At(t).k = "observe" /\ tr[t].ph \in {"use", "wait"}
    /\ lazy[At(t).i] = "Init"
    /\ At(t).l \notin DOMAIN vals[At(t).i]
    /\ ~BucketsValid(Unwrap(cell).histogram_buckets)

Collides(i) ==
    /\ IsSome(cell)
    /\ ForeignCollector(i) \in registries[Unwrap(cell).registry]

\* C16: a registration that fails on a name collision surfaces as a panic of
\* the poll that first uses the instrument (and of every later poll that uses
\* it); as long as the name is taken nothing is recorded for the instrument, no
\* collector of the crate joins the foreign one under that name, and no poll
\* that had an observation to make on it returned.
C16_CollisionPanicsAtFirstUse ==
    /\ [][\A i \in Instruments :
              /\ (lazy[i] # "Poisoned" /\ lazy'[i] = "Poisoned") =>
                     /\ lazy[i] = "Running"
                     /\ ret'.op = "poll" /\ ret'.out = Panic
                     /\ i \in UsedAt(ret'.t) /\ Unwound(ret'.t)
              /\ \A t \in TrackerIds :
                     /\ (lazy[i] = "Poisoned" /\ i \in UsedAt(t)) =>
                            (Unwound(t) /\ ret'.op = "poll" /\ ret'.out = Panic)
                     /\ (Collides(i) /\ i \in UsedAt(t)) =>
                            /\ Runs(t) = NoStmt
                            /\ tr[t].ph = "reg" => lazy'[i] = "Poisoned"
              /\ lazy[i] = "Poisoned" => lazy'[i] = "Poisoned" ]_vars
    /\ [](\A i \in Instruments :
              /\ Collides(i) =>
                     /\ lazy[i] \in {"Uninit", "Running", "Poisoned"}
                     /\ vals[i] = <<>>
                     /\ \A c \in registries[Unwrap(cell).registry] :
                            c.name = MetricName(i) => c = ForeignCollector(i)
              /\ lazy[i] = "Poisoned" => (Collides(i) /\ initRuns[i] = 1))

\* The started counter's name was taken: the first poll of one call panicked in
\* the start closure, and so did the first poll of the next call.
C16_Witness ==
    /\ Collides("COUNTER_SM") /\ lazy["COUNTER_SM"] = "Poisoned"
    /\ initRuns["COUNTER_SM"] = 1
    /\ \E t, u \in TrackerIds :
           /\ t # u
           /\ tr[t].kind = "server" /\ tr[t].panics = 1 /\ tr[t].polls = 0
           /\ tr[u].kind = "server" /\ tr[u].panics = 1 /\ tr[u].polls = 0
    /\ ret.op = "poll" /\ ret.out = Panic

\* C17: a poll of a tracker that has been polled before, at which the inner
\* future is Pending, returns Pending and changes no counter, histogram or
\* gauge value, registers nothing and leaves the start instant as it is, on
\* its way into the inner future (no statement of the start closure runs) and
\* on its way out; so any number of such polls in a row leaves the metrics as
\* the first poll left them.
C17_PendingPollIsSilent ==
    [][ \A t \in TrackerIds :
            ((Began(t) /\ IsSome(tr[t].started_at)) \/ (Ended(t) /\ ret'.inner = Pending)) =>
                /\ vals' = vals
                /\ lazy' = lazy /\ registries' = registries /\ cell' = cell
                /\ tr'[t].started_at = tr[t].started_at
                /\ ~Unwound(t)
                /\ Runs(t) = NoStmt
                /\ Began(t) => tr'[t].pc = "inner"
                /\ Ended(t) => (ret'.out = Pending /\ tr'[t].pc = "idle") ]_vars

\* A call first polled at instant 0 and polled again, pending, at instant 1:
\* started once, start instant still 0.
C17_Witness ==
    /\ now = 1 /\ ret.op = "poll" /\ ret.out = Pending
    /\ \E t \in TrackerIds :
           /\ ret.t = t /\ tr[t].calls = 2 /\ tr[t].polls = 2 /\ tr[t].readies = 0
           /\ tr[t].started_at = Some(0)
           /\ StartedOf(vals, tr[t]) = 1

\* C18: the identity of a call is fixed at creation, and every observation a
\* poll of it makes carries that identity: whichever poll it is, first or
\* final, the series it touches in the started and handled counters and the
\* latency histograms are those of the call's one (service, method), and the
\* series it touches in the gauge (up or down) and the per-path counter and
\* histogram are those of its one (method, path).
C18_LabelsFixedPerCall ==
    [][ /\ \A t \in TrackerIds :
               Created(t) =>
                   /\ tr'[t].kind = tr[t].kind
                   /\ tr'[t].method = tr[t].method /\ tr'[t].path = tr[t].path
                   /\ tr'[t].sep = tr[t].sep /\ tr'[t].service = tr[t].service
        /\ \A t \in TrackerIds :
            Acts(t) =>
               LET me == tr[t]
                   mine == StartInstruments(me.kind) \cup CompleteInstruments(me.kind)
               IN  /\ \A i \in Instruments \ mine : Changed(i) = {}
                   /\ \A i \in mine : \A l \in Changed(i) :
                          IF i \in {"COUNTER_MP", "HISTOGRAM_MP", "GAUGE_MP"}
                          THEN l = <<me.method, me.path>>
                          ELSE <<l[1], l[2]>> = LabelsSM(me)
                   /\ (vals' # vals /\ me.pc = "ready") =>
                          /\ Val(vals', StartedCounter(me), LabelsSM(me)) >= 1
                          /\ me.kind = "server" =>
                                 LabelsMP(me) \in DOMAIN vals'["GAUGE_MP"] ]_vars

\* Two server calls with different paths and methods, both started, the first
\* completed while the second was in flight: each path has its own series.
C18_Witness ==
    \E t, u \in TrackerIds :
        /\ tr[t].kind = "server" /\ tr[u].kind = "server"
        /\ tr[t].path = GrpcPath /\ tr[u].path = PlainPath /\ tr[u].method = "GET"
        /\ tr[t].polls = 1 /\ tr[t].readies = 1 /\ tr[u].polls = 1 /\ tr[u].readies = 0
        /\ HandledOf(vals, tr[t], "Ok") = 1 /\ HandledOf(vals, tr[u], "Ok") = 0
        /\ GaugeOf(vals, tr[t]) = 0 /\ GaugeOf(vals, tr[u]) = 1

\* The latency histograms tracker me observes into, with the series it uses.
LatencySeries(me, code) ==
    IF me.kind = "server"
    THEN {<<"HISTOGRAM_MP", LabelsMP(me)>>, <<"HISTOGRAM_SMC", LabelsSMC(me, code)>>}
    ELSE {<<"CLIENT_HISTOGRAM", LabelsSMC(me, code)>>}

\* Each statement of the Ready branch of tracker t that observes into a
\* latency histogram adds one observation, of the duration the branch took on
\* entry, to the call's series there; no other statement of the branch touches
\* the latency histograms.
ObservesAtCompletion(t) ==
    (Acts(t) /\ tr[t].pc = "ready") =>
        \A s \in LatencySeries(tr[t], Classify(tr[t].got[2])) :
            LET n == IF Runs(t).i = s[1] THEN 1 ELSE 0
            IN  /\ HVal(vals', s[1], s[2])[1] = HVal(vals, s[1], s[2])[1] + n
                /\ HVal(vals', s[1], s[2])[2] = HVal(vals, s[1], s[2])[2] + n * tr[t].elapsed

\* The start instant is unset until the first poll, is set by the clock read
\* of that poll's start closure to the instant of the read and never changes
\* afterwards.
StartInstantFixed(t) ==
    /\ (Created(t) /\ IsSome(tr[t].started_at)) => tr'[t].started_at = tr[t].started_at
    /\ (~IsSome(tr[t].started_at) /\ IsSome(tr'[t].started_at)) =>
           /\ Acts(t) /\ Runs(t) = ReadClock
           /\ tr[t].calls = 1 /\ tr[t].polls = 0
           /\ tr'[t].started_at = Some(now)

\* The poll of tracker t at which the inner future resolves takes d as the
\* duration to record.
TakesDuration(t, d) ==
    (Ended(t) /\ tr'[t].pc = "ready") => tr'[t].elapsed = d

\* C19 as stated: the start instant is unset until the first poll, set at it
\* and fixed afterwards, and the duration recorded at completion is (instant
\* of the completing poll - instant of the first poll): 0 when the first poll
\* is also the completing poll, and for a later completing poll the instant it
\* reads at completion less the start instant.
C19_DurationFromFirstPoll ==
    /\ [][\A t \in TrackerIds :
              /\ StartInstantFixed(t)
              /\ TakesDuration(t, IF tr[t].calls = 1 THEN 0
                                  ELSE now - Unwrap(tr[t].started_at))
              /\ ObservesAtCompletion(t) ]_vars
    /\ [](\A t \in TrackerIds :
              (Created(t) /\ tr[t].calls = 0) => ~IsSome(tr[t].started_at))

\* C19 amended: the start instant is unset until the first poll, is set by the
\* clock read of the first poll's start closure (before the inner future is
\* polled) and never changes afterwards; at a poll whose inner future returns
\* the final value the duration is (instant read after the inner future
\* returned - start instant), and each latency histogram of the call takes one
\* observation of it: the time the polls themselves took is included, so a
\* call completed by its first poll records the time that poll spent in the
\* inner future, which is 0 only when no time passed there; it is never the
\* time since the call was created.
C19_DurationUntilInnerReturned ==
    /\ [][\A t \in TrackerIds :
              /\ StartInstantFixed(t)
              /\ TakesDuration(t, now - Unwrap(tr[t].started_at))
              /\ ObservesAtCompletion(t) ]_vars
    /\ [](\A t \in TrackerIds :
              (Created(t) /\ tr[t].calls = 0) => ~IsSome(tr[t].started_at))

\* A client call whose first poll read its start instant at 0 and whose inner
\* future returned the final value at instant 1: one observation, of duration
\* 1; next to it a server call created at 0, first polled at 1 and completed
\* by that poll at once: one observation, of duration 0.
C19_Witness ==
    /\ now = 1
    /\ \E t \in TrackerIds :
           /\ tr[t].kind = "client" /\ tr[t].calls = 1 /\ tr[t].readies = 1
           /\ tr[t].started_at = Some(0)
           /\ SubSeq(HVal(vals, "CLIENT_HISTOGRAM", LabelsSMC(tr[t], "Ok")), 1, 2) = <<1, 1>>
    /\ \E u \in TrackerIds :
           /\ tr[u].kind = "server" /\ tr[u].calls = 1 /\ tr[u].readies = 1
           /\ tr[u].started_at = Some(1)
           /\ SubSeq(HVal(vals, "HISTOGRAM_SMC", LabelsSMC(tr[u], "Ok")), 1, 2) = <<1, 0>>

\* The server calls with the (method, path) of t.
PeersMP(t) ==
    {u \in TrackerIds : tr[u].kind = "server" /\ LabelsMP(tr[u]) = LabelsMP(tr[t])}

\* C20: in every reachable state function_calls_concurrent of each (method,
\* path) is non-negative and equals the number of server trackers with those
\* labels that have been polled at least once (counted from the gauge increment
\* their first poll opens with) and have not completed, dropped ones included.
C20_GaugeCountsInFlight ==
    \A t \in TrackerIds :
        tr[t].kind = "server" =>
            /\ GaugeOf(vals, tr[t]) >= 0
            /\ GaugeOf(vals, tr[t])
                   = Cardinality({u \in PeersMP(t) : tr[u].ginc >= 1 /\ tr[u].readies = 0})

====
